---- MODULE Spec2Model ----
(***************************************************************************)
(* Model of the resource-contention engine of soln.py: class Resource (a   *)
(* FIFO queue served by a one-thread ThreadPoolExecutor), class Process    *)
(* (one thread per process, driving its schedule through the resources)    *)
(* and schedule_processes (load, launch, join, report, cleanup), with      *)
(* read_process_from_csv of read_csv.py.  Time is a clock in milliseconds  *)
(* that advances when a worker's time.sleep returns.                       *)
(*                                                                         *)
(* Threads of the model: one per process, one executor worker per          *)
(* resource, and the main thread.  A step of the model is one access to    *)
(* shared state together with the thread-local code around it; code that   *)
(* runs under a resource's lock is split only where a variable written     *)
(* without the lock (_stopping, the executor, the future) is read.         *)
(***************************************************************************)
EXTENDS Integers, Sequences, FiniteSets, TLC

\* ---------------------------------------------------------------- bounds
NumProcs == 2     \* number of input files, one process each
MaxRows == 3      \* total number of rows in all input files together

\* ---------------------------------------------------------------- inputs
\* Python's None; a time stamp int(time.time() * 1000) taken at clock value t
\* is << t >>, so that arithmetic on None is an error as it is in the source.
None == << >>

\* Thread identities, as holders of a lock; no holder; no future.
Free == << >>
ProcessThread(p) == << "process", p >>
WorkerThread == << "worker" >>
NoFuture == << >>
NoEvent == << >>

\* RESOURCE_TYPES, restricted to the fused-pair resource and one plain one.
RESOURCE_TYPES == {"arm", "inc"}

Procs == 0 .. (NumProcs - 1)

\* Rows a CSV file can hold, as csv.reader yields them (lists of strings):
\* the fused begin step, its paired step, a plain operation, a plain operation
\* with a negative duration (time.sleep raises ValueError), a row naming a
\* resource that is not in RESOURCE_TYPES, a row with two columns and a row
\* whose duration is not an integer.
Rows ==
    { << "arm", "0x500", "0" >>,
      << "arm", "0x600", "1" >>,
      << "inc", "0x100", "1" >>,
      << "inc", "0x100", "-1" >>,
      << "xyz", "0x100", "1" >>,
      << "inc", "0x100" >>,
      << "inc", "0x100", "x" >> }

\* read_csv.py:11 -- int(duration), on the strings that denote an integer
int == [s \in {"-1", "0", "1"} |-> CASE s = "-1" -> -1 [] s = "0" -> 0 [] s = "1" -> 1]

\* read_csv.py:10-11 -- the unpacking of a row into three fields, or int(),
\* raises ValueError
RowRaises(row) == Len(row) # 3 \/ row[3] \notin DOMAIN int

\* read_csv.py:4-12 -- read_process_from_csv raises on the first bad row
ReadRaises(file) == \E n \in 1 .. Len(file) : RowRaises(file[n])

\* read_csv.py:9-12 -- the operations read_process_from_csv returns
read_process_from_csv(file) ==
    [n \in 1 .. Len(file) |-> [res |-> file[n][1], op |-> file[n][2], dur |-> int[file[n][3]]]]

\* Number of rows of the files of the processes before p, and of all files.
RECURSIVE RowsBefore(_, _)
RowsBefore(lens, p) == IF p = 0 THEN 0 ELSE RowsBefore(lens, p - 1) + lens[p - 1]

\* The inputs: every way to give each process a file (possibly with a header
\* only) such that there are at most MaxRows rows in all.
Inputs ==
    UNION { { [p \in Procs |-> [n \in 1 .. lens[p] |-> flat[RowsBefore(lens, p) + n]]] :
                 flat \in [1 .. RowsBefore(lens, NumProcs) -> Rows] } :
            lens \in { l \in [Procs -> 0 .. MaxRows] : RowsBefore(l, NumProcs) <= MaxRows } }

VARIABLES
    files,        \* the rows of each input file, after the header (never changed)
    loaded,       \* number of Process objects constructed (len(processes))
    operations,   \* Process.operations, per process, once it is constructed
    pc,           \* position of each process thread in Process.run
    i,            \* loop index of Process.run, per process
    event,        \* local variable event of Process.run, per process
    future,       \* local variable future of __process_next, per process thread
    start_time,   \* Process.start_time
    end_time,     \* Process.end_time
    queue,        \* Resource.queue, per resource
    active,       \* Resource.active
    stopping,     \* Resource._stopping
    lock,         \* holder of Resource.lock
    wq,           \* work items submitted to the resource's executor, not yet run
    shut,         \* the executor has been shut down (submit raises RuntimeError)
    worker,       \* the executor's worker thread: [st, req, t0]
    isset,        \* threading.Event objects that are set
    futDone,      \* futures that have finished
    futCb,        \* futures with __operation_completed registered
    futExc,       \* futures that finished with an exception
    mpc,          \* position of the main thread in schedule_processes
    now,          \* the clock, in milliseconds
    cluster_time, \* the total cluster time printed (soln.py:157), None before
    appended,     \* history: queue entries in the order they were appended, per resource
    begun,        \* history: requests in the order their execution began
    ended,        \* history: requests in the order their execution ended
    resumed       \* history: events on which a process returned from event.wait()

vars == << files, loaded, now, cluster_time, operations, pc, i, event, future, start_time, end_time, queue, active, stopping,
           lock, wq, shut, worker, isset, futDone, futCb, futExc, mpc,
           appended, begun, ended, resumed >>

\* A queue entry is the tuple (process_id, operation, duration, event) of the
\* source, as a record, with the index k of the schedule entry it stands for.
\* An event is identified by the process and the loop index at which it was
\* created (soln.py:100); a future by the request it was created for.
Id(req) == << req.pid, req.k >>

IdleWorker == [st |-> "idle", req |-> None, t0 |-> 0]

\* ------------------------------------------------------- Resource helpers

\* soln.py:29 -- the fused two-step test of Resource.request
RequestIsFused(name, operation) == name = "arm" /\ operation = "0x500"

\* soln.py:101 -- the fused two-step test of Process.run
RunIsFused(resource_type, operation) == resource_type = "arm" /\ operation = "0x500"

EnqueueSignalFirst(q, name, process_id, operation, duration, ev, k) ==
    IF RequestIsFused(name, operation)
    THEN q \o << [pid |-> process_id, op |-> "0x500", dur |-> duration[1], ev |-> ev, k |-> k],
                 [pid |-> process_id, op |-> "0x600", dur |-> duration[2], ev |-> NoEvent, k |-> k + 1] >>
    ELSE Append(q, [pid |-> process_id, op |-> operation, dur |-> duration[1], ev |-> ev, k |-> k])

EnqueueSwapped(q, name, process_id, operation, duration, ev, k) ==
    IF RequestIsFused(name, operation)
    THEN q \o << [pid |-> process_id, op |-> "0x600", dur |-> duration[2], ev |-> ev, k |-> k + 1],
                 [pid |-> process_id, op |-> "0x500", dur |-> duration[1], ev |-> NoEvent, k |-> k] >>
    ELSE Append(q, [pid |-> process_id, op |-> operation, dur |-> duration[1], ev |-> ev, k |-> k])

\* soln.py:29-33 -- the appends of Resource.request; k is the schedule index of
\* the entry being submitted (of the begin step, for a fused pair).
Enqueue(q, name, process_id, operation, duration, ev, k) ==
    IF RequestIsFused(name, operation)
    THEN q \o << [pid |-> process_id, op |-> "0x500", dur |-> duration[1], ev |-> NoEvent, k |-> k],
                 [pid |-> process_id, op |-> "0x600", dur |-> duration[2], ev |-> ev, k |-> k + 1] >>
    ELSE Append(q, [pid |-> process_id, op |-> operation, dur |-> duration[1], ev |-> ev, k |-> k])

IdleAlways(r) == TRUE

\* soln.py:34 -- "if not self.active"
Idle(r) == ~active[r]

\* soln.py:40 -- the early return of __process_next, negated
MayProcessNext(r, q) == ~stopping[r] /\ q # << >>

pop(q) == << q[Len(q)], SubSeq(q, 1, Len(q) - 1) >>

\* soln.py:44 -- self.queue.popleft(): the head and the rest
popleft(q) == << Head(q), Tail(q) >>

\* soln.py:57 -- time.sleep(duration / 1000) raises ValueError for a negative length
SleepRaises(duration) == duration < 0

LockFreeAlways(r) == TRUE

\* soln.py:28,66 -- "with self.condition" is entered only when the lock is free
LockFree(r) == lock[r] = Free

SignaledAlways(p) == TRUE

\* soln.py:106 -- event.wait() returns once the event is set
Signaled(p) == event[p] \in isset

\* ------------------------------------------------------------------ Init
Init ==
    /\ files \in Inputs
    /\ loaded = 0
    /\ now = 0
    /\ cluster_time = None
    /\ operations = [p \in Procs |-> << >>]
    /\ pc = [p \in Procs |-> "new"]
    /\ i = [p \in Procs |-> 0]
    /\ event = [p \in Procs |-> NoEvent]
    /\ future = [p \in Procs |-> NoFuture]
    /\ start_time = [p \in Procs |-> None]
    /\ end_time = [p \in Procs |-> None]
    /\ queue = [r \in RESOURCE_TYPES |-> << >>]
    /\ active = [r \in RESOURCE_TYPES |-> FALSE]
    /\ stopping = [r \in RESOURCE_TYPES |-> FALSE]
    /\ lock = [r \in RESOURCE_TYPES |-> Free]
    /\ wq = [r \in RESOURCE_TYPES |-> << >>]
    /\ shut = [r \in RESOURCE_TYPES |-> FALSE]
    /\ worker = [r \in RESOURCE_TYPES |-> IdleWorker]
    /\ isset = {}
    /\ futDone = {}
    /\ futCb = {}
    /\ futExc = {}
    /\ mpc = "load"
    /\ appended = [r \in RESOURCE_TYPES |-> << >>]
    /\ begun = [r \in RESOURCE_TYPES |-> << >>]
    /\ ended = [r \in RESOURCE_TYPES |-> << >>]
    /\ resumed = {}

resVars == << queue, active, stopping, lock, wq, shut, worker >>
futVars == << futDone, futCb, futExc >>
histVars == << appended, begun, ended, resumed >>
mainVars == << files, loaded, cluster_time >>

\* ----------------------------------------------------------- Process.run

\* The schedule entry at the (0-based) loop index.
Entry(p) == operations[p][i[p] + 1]

\* soln.py:93-95 -- start_time is taken, i = 0
RunStart(p) ==
    /\ pc[p] = "start"
    /\ start_time' = [start_time EXCEPT ![p] = << now >>]
    /\ i' = [i EXCEPT ![p] = 0]
    /\ pc' = [pc EXCEPT ![p] = "loop"]
    /\ UNCHANGED << operations, event, future, end_time, resVars, isset, futVars, mpc, mainVars, now, histVars >>

LoopOverAlways(p) == TRUE

\* soln.py:96 -- "while i < len(self.operations)" is false
LoopOver(p) == i[p] >= Len(operations[p])

\* soln.py:96,110 -- the loop is over: end_time is taken
RunEnd(p) ==
    /\ pc[p] = "loop"
    /\ LoopOver(p)
    /\ end_time' = [end_time EXCEPT ![p] = << now >>]
    /\ pc' = [pc EXCEPT ![p] = "done"]
    /\ UNCHANGED << operations, event, future, i, start_time, resVars, isset, futVars, mpc, mainVars, now, histVars >>

\* soln.py:99,111-112 -- resource_manager[resource_type] raises KeyError
RunKeyError(p) ==
    /\ pc[p] = "loop"
    /\ i[p] < Len(operations[p])
    /\ Entry(p).res \notin RESOURCE_TYPES
    /\ pc' = [pc EXCEPT ![p] = "aborted"]
    /\ UNCHANGED << operations, event, future, i, start_time, end_time, resVars, isset, futVars, mpc, mainVars, now, histVars >>

\* soln.py:101-103,111-112 -- the begin step is the last entry:
\* self.operations[i] raises IndexError after i += 1
RunIndexError(p) ==
    /\ pc[p] = "loop"
    /\ i[p] < Len(operations[p])
    /\ Entry(p).res \in RESOURCE_TYPES
    /\ RunIsFused(Entry(p).res, Entry(p).op)
    /\ i[p] + 1 >= Len(operations[p])
    /\ i' = [i EXCEPT ![p] = i[p] + 1]
    /\ pc' = [pc EXCEPT ![p] = "aborted"]
    /\ UNCHANGED << operations, event, future, start_time, end_time, resVars, isset, futVars, mpc, mainVars, now, histVars >>

\* soln.py:97-105 and 26-36,40 -- one loop iteration up to and including
\* resource.request(...): the lock is taken, the entry (or the fused pair) is
\* appended, and if the resource is idle __process_next reads _stopping.
Request(p) ==
    /\ pc[p] = "loop"
    /\ i[p] < Len(operations[p])
    /\ Entry(p).res \in RESOURCE_TYPES
    /\ LET r == Entry(p).res
           fused == RunIsFused(r, Entry(p).op)
           j == IF fused THEN i[p] + 1 ELSE i[p]
       IN  /\ fused => j < Len(operations[p])
           /\ LockFree(r)
           /\ LET duration == IF fused THEN << Entry(p).dur, operations[p][j + 1].dur >>
                                       ELSE << Entry(p).dur >>
                  q == Enqueue(queue[r], r, p, Entry(p).op, duration, << p, i[p] >>, i[p])
              IN  /\ queue' = [queue EXCEPT ![r] = q]
                  /\ appended' = [appended EXCEPT
                        ![r] = @ \o [n \in 1 .. (Len(q) - Len(queue[r])) |->
                                        q[Len(queue[r]) + n]]]
                  /\ event' = [event EXCEPT ![p] = << p, i[p] >>]
                  /\ i' = [i EXCEPT ![p] = j]
                  /\ IF Idle(r) /\ MayProcessNext(r, q)
                     THEN /\ lock' = [lock EXCEPT ![r] = ProcessThread(p)]
                          /\ pc' = [pc EXCEPT ![p] = "dispatch"]
                     ELSE /\ lock' = lock
                          /\ pc' = [pc EXCEPT ![p] = "wait"]
    /\ UNCHANGED << operations, future, start_time, end_time, active, stopping, wq, shut,
                    worker, isset, futVars, mpc, mainVars, now, begun, ended, resumed >>

\* soln.py:43-51 -- __process_next called from request: active is set, the head
\* is popped and handed to the executor; submit raises RuntimeError once the
\* executor is shut down, which leaves request (releasing the lock) and ends run.
Dispatch(p) ==
    /\ pc[p] = "dispatch"
    /\ \E r \in RESOURCE_TYPES :
          /\ lock[r] = ProcessThread(p)
          /\ active' = [active EXCEPT ![r] = TRUE]
          /\ queue' = [queue EXCEPT ![r] = popleft(queue[r])[2]]
          /\ IF shut[r]
             THEN /\ wq' = wq
                  /\ future' = future
                  /\ lock' = [lock EXCEPT ![r] = Free]
                  /\ pc' = [pc EXCEPT ![p] = "aborted"]
             ELSE /\ wq' = [wq EXCEPT ![r] = Append(@, popleft(queue[r])[1])]
                  /\ future' = [future EXCEPT ![p] = Id(popleft(queue[r])[1])]
                  /\ lock' = lock
                  /\ pc' = [pc EXCEPT ![p] = "register"]
    /\ UNCHANGED << operations, i, event, start_time, end_time, stopping, shut, worker,
                    isset, futVars, mpc, mainVars, now, histVars >>

\* soln.py:52 -- future.add_done_callback(self.__operation_completed) called from
\* request.  A future that is still pending records the callback.  A future
\* that has already finished runs the callback at once in this thread, which
\* holds the lock: with an exception the callback raises (soln.py:63-64, logged
\* by add_done_callback) and request returns; without one it reaches
\* "with self.condition" (soln.py:66) on a lock that is not reentrant.
Register(p) ==
    /\ pc[p] = "register"
    /\ \E r \in RESOURCE_TYPES :
          /\ lock[r] = ProcessThread(p)
          /\ LET f == future[p]
             IN  IF f \notin futDone
                 THEN /\ futCb' = futCb \cup {f}
                      /\ lock' = [lock EXCEPT ![r] = Free]
                      /\ pc' = [pc EXCEPT ![p] = "wait"]
                 ELSE IF f \in futExc
                 THEN /\ futCb' = futCb
                      /\ lock' = [lock EXCEPT ![r] = Free]
                      /\ pc' = [pc EXCEPT ![p] = "wait"]
                 ELSE /\ futCb' = futCb
                      /\ lock' = lock
                      /\ pc' = [pc EXCEPT ![p] = "blocked"]
    /\ future' = [future EXCEPT ![p] = NoFuture]
    /\ UNCHANGED << operations, i, event, start_time, end_time, queue, active, stopping,
                    wq, shut, worker, isset, futDone, futExc, mpc, mainVars, now, histVars >>

\* soln.py:106-108 -- event.wait() returns, i += 1
Wait(p) ==
    /\ pc[p] = "wait"
    /\ Signaled(p)
    /\ resumed' = resumed \cup {event[p]}
    /\ i' = [i EXCEPT ![p] = i[p] + 1]
    /\ pc' = [pc EXCEPT ![p] = "loop"]
    /\ UNCHANGED << operations, event, future, start_time, end_time, resVars, isset, futVars, mpc, mainVars, now,
                    appended, begun, ended >>

\* ------------------------------------------- the executor's worker thread

procVars == << operations, pc, i, event, future, start_time, end_time >>

\* concurrent.futures worker loop: the one worker thread (max_workers = 1,
\* soln.py:17,24) takes the oldest work item; the request begins execution.
WorkerPick(r) ==
    /\ worker[r].st = "idle"
    /\ wq[r] # << >>
    /\ worker' = [worker EXCEPT ![r] = [st |-> "exec", req |-> Head(wq[r]), t0 |-> now]]
    /\ wq' = [wq EXCEPT ![r] = Tail(@)]
    /\ begun' = [begun EXCEPT ![r] = Append(@, Head(wq[r]))]
    /\ UNCHANGED << procVars, queue, active, stopping, lock, shut, isset, futVars,
                    mpc, mainVars, now, appended, ended, resumed >>

\* soln.py:57 -- the clock when time.sleep returns: the duration after the
\* sleep began, unless the clock is past that already; at once when it raises.
Slept(t0, duration) ==
    IF ~SleepRaises(duration) /\ t0 + duration > now THEN t0 + duration ELSE now

\* soln.py:54-60 -- __execute: the sleep returns or raises, and the finally
\* block sets the event if the request carries one.
Execute(r) ==
    /\ worker[r].st = "exec"
    /\ LET req == worker[r].req
       IN  /\ now' = Slept(worker[r].t0, req.dur)
           /\ isset' = IF req.ev # NoEvent THEN isset \cup {req.ev} ELSE isset
           /\ futExc' = IF SleepRaises(req.dur) THEN futExc \cup {Id(req)} ELSE futExc
           /\ ended' = [ended EXCEPT ![r] = Append(@, req)]
    /\ worker' = [worker EXCEPT ![r].st = "ran", ![r].t0 = 0]
    /\ UNCHANGED << procVars, queue, active, stopping, lock, wq, shut, futDone, futCb,
                    mpc, mainVars, appended, begun, resumed >>

\* Future.set_result / set_exception: the future becomes finished and the
\* callbacks registered so far are invoked in the worker thread.
FutureDone(r) ==
    /\ worker[r].st = "ran"
    /\ futDone' = futDone \cup {Id(worker[r].req)}
    /\ worker' = [worker EXCEPT ![r] =
                    IF Id(worker[r].req) \in futCb
                    THEN [@ EXCEPT !.st = "callback"]
                    ELSE IdleWorker]
    /\ UNCHANGED << procVars, queue, active, stopping, lock, wq, shut, isset, futCb,
                    futExc, mpc, mainVars, now, histVars >>

\* soln.py:63-64 -- __operation_completed of a failed future raises before the
\* lock is taken; the futures module logs the exception and the worker goes on.
CompletedRaises(r) ==
    /\ worker[r].st = "callback"
    /\ Id(worker[r].req) \in futExc
    /\ worker' = [worker EXCEPT ![r] = IdleWorker]
    /\ UNCHANGED << procVars, queue, active, stopping, lock, wq, shut, isset, futVars,
                    mpc, mainVars, now, histVars >>

\* soln.py:66-70,40 -- __operation_completed in the worker thread: under the
\* lock, an empty queue clears active; otherwise __process_next reads _stopping.
OperationCompleted(r) ==
    /\ worker[r].st = "callback"
    /\ Id(worker[r].req) \notin futExc
    /\ LockFree(r)
    /\ IF queue[r] = << >>
       THEN /\ active' = [active EXCEPT ![r] = FALSE]
            /\ worker' = [worker EXCEPT ![r] = IdleWorker]
            /\ lock' = lock
       ELSE IF MayProcessNext(r, queue[r])
       THEN /\ active' = active
            /\ worker' = [worker EXCEPT ![r] = [st |-> "dispatch", req |-> None, t0 |-> 0]]
            /\ lock' = [lock EXCEPT ![r] = WorkerThread]
       ELSE /\ active' = active
            /\ worker' = [worker EXCEPT ![r] = IdleWorker]
            /\ lock' = lock
    /\ UNCHANGED << procVars, queue, stopping, wq, shut, isset, futVars, mpc, mainVars, now, histVars >>

\* soln.py:43-52 -- __process_next called from __operation_completed: the head
\* is popped and submitted, and the callback is registered.  The only worker
\* thread is the one running this code, so the new future is still pending
\* when add_done_callback is reached.  After the executor's shutdown submit
\* raises RuntimeError, which the futures module logs.
CompletedDispatch(r) ==
    /\ worker[r].st = "dispatch"
    /\ lock[r] = WorkerThread
    /\ active' = [active EXCEPT ![r] = TRUE]
    /\ queue' = [queue EXCEPT ![r] = popleft(queue[r])[2]]
    /\ IF shut[r]
       THEN /\ wq' = wq
            /\ futCb' = futCb
       ELSE /\ wq' = [wq EXCEPT ![r] = Append(@, popleft(queue[r])[1])]
            /\ futCb' = futCb \cup {Id(popleft(queue[r])[1])}
    /\ lock' = [lock EXCEPT ![r] = Free]
    /\ worker' = [worker EXCEPT ![r] = IdleWorker]
    /\ UNCHANGED << procVars, stopping, shut, isset, futDone, futExc, mpc, mainVars, now, histVars >>

\* ---------------------------------------------------- schedule_processes

\* soln.py:136-137 -- the next file is read and its Process constructed; when
\* read_process_from_csv raises, control passes to the finally block.
LoadFile ==
    /\ mpc = "load"
    /\ loaded < NumProcs
    /\ IF ReadRaises(files[loaded])
       THEN /\ mpc' = "cleanup_exc"
            /\ UNCHANGED << operations, loaded >>
       ELSE /\ operations' = [operations EXCEPT ![loaded] = read_process_from_csv(files[loaded])]
            /\ loaded' = loaded + 1
            /\ mpc' = mpc
    /\ UNCHANGED << files, cluster_time, now, pc, i, event, future, start_time, end_time,
                    resVars, isset, futVars, histVars >>

LoadedSome == loaded >= 1

\* soln.py:136-139 -- the loop over the files has ended
LoadedAll == loaded = NumProcs

\* soln.py:139-143 -- every process thread is created and started
StartThreads ==
    /\ mpc = "load"
    /\ LoadedAll
    /\ pc' = [p \in Procs |-> "start"]
    /\ mpc' = "join"
    /\ UNCHANGED << operations, i, event, future, start_time, end_time, resVars, isset,
                    futVars, histVars, mainVars, now >>

\* soln.py:145-146 -- every thread.join() has returned
JoinThreads ==
    /\ mpc = "join"
    /\ \A p \in Procs : pc[p] \in {"done", "aborted"}
    /\ mpc' = "report"
    /\ UNCHANGED << procVars, resVars, isset, futVars, histVars, mainVars, now >>

\* soln.py:119-128 -- Process.get_downtime: the empty map while end_time is
\* None; otherwise the total time for every resource of the registry, less the
\* duration of every entry of the schedule for the resource the entry names.
\* downtime[resource_type] raises KeyError for a name that is not in the registry.
get_downtime(p) ==
    IF end_time[p] = None
    THEN [raises |-> FALSE, downtime |-> << >>]
    ELSE LET total_time == end_time[p][1] - start_time[p][1]
             ops == operations[p]
             Charged(res) == { n \in 1 .. Len(ops) : ops[n].res = res }
             RECURSIVE Sum(_)
             Sum(S) == IF S = {} THEN 0
                       ELSE LET n == CHOOSE m \in S : TRUE IN ops[n].dur + Sum(S \ {n})
         IN  IF \E n \in 1 .. Len(ops) : ops[n].res \notin RESOURCE_TYPES
             THEN [raises |-> TRUE, downtime |-> << >>]
             ELSE [raises |-> FALSE,
                   downtime |-> [res \in RESOURCE_TYPES |-> total_time - Sum(Charged(res))]]

\* soln.py:150-151 -- the report of a process raises: TypeError from
\* end_time - start_time when end_time is None, or KeyError from get_downtime
ReportRaises(p) == end_time[p] = None \/ get_downtime(p).raises

\* soln.py:154 -- min(p.start_time ...) over the processes that have one
MinStart ==
    LET S == { start_time[p][1] : p \in { q \in Procs : start_time[q] # None } }
    IN  CHOOSE t \in S : \A u \in S : t <= u

\* soln.py:155 -- max(p.end_time ...) over the processes that have one
MaxEnd ==
    LET S == { end_time[p][1] : p \in { q \in Procs : end_time[q] # None } }
    IN  CHOOSE t \in S : \A u \in S : t >= u

\* soln.py:149-157 -- the report: the time and the downtime of every process,
\* then the total cluster time.  An exception passes control to the finally
\* block before the cluster time is printed.
Report ==
    /\ mpc = "report"
    /\ IF \E p \in Procs : ReportRaises(p)
       THEN /\ mpc' = "cleanup_exc"
            /\ cluster_time' = cluster_time
       ELSE /\ mpc' = "cleanup"
            /\ cluster_time' = << MaxEnd - MinStart >>
    /\ UNCHANGED << procVars, resVars, isset, futVars, histVars, files, loaded, now >>

\* soln.py:133-159 -- an exception raised in the main thread inside the try
\* block while process threads are running (thread.start() failing for a later
\* thread, KeyboardInterrupt during thread.join()) passes control to the
\* finally block at once.
Interrupt ==
    /\ mpc = "join"
    /\ mpc' = "cleanup_exc"
    /\ UNCHANGED << procVars, resVars, isset, futVars, histVars, mainVars, now >>

InCleanup == mpc \in {"cleanup", "cleanup_exc"}

\* soln.py:161-162,74 -- shutdown() of the next resource sets _stopping
\* (without taking the lock)
ShutdownStopping(r) ==
    /\ InCleanup
    /\ \A s \in RESOURCE_TYPES : stopping[s] => worker[s].st = "exited"
    /\ ~stopping[r]
    /\ stopping' = [stopping EXCEPT ![r] = TRUE]
    /\ UNCHANGED << procVars, queue, active, lock, wq, shut, worker, isset, futVars,
                    mpc, mainVars, now, histVars >>

\* soln.py:75 -- executor.shutdown: the executor refuses new work from here on
ShutdownExecutor(r) ==
    /\ InCleanup
    /\ stopping[r]
    /\ ~shut[r]
    /\ shut' = [shut EXCEPT ![r] = TRUE]
    /\ UNCHANGED << procVars, queue, active, stopping, lock, wq, worker, isset,
                    futVars, mpc, mainVars, now, histVars >>

\* soln.py:75 -- wait=True: the worker thread ends once it has run every work
\* item submitted before the shutdown, and shutdown() returns.
ShutdownJoin(r) ==
    /\ InCleanup
    /\ shut[r]
    /\ worker[r].st = "idle"
    /\ wq[r] = << >>
    /\ worker' = [worker EXCEPT ![r] = [st |-> "exited", req |-> None, t0 |-> 0]]
    /\ mpc' = IF \A s \in RESOURCE_TYPES \ {r} : worker[s].st = "exited"
              THEN "finished" ELSE mpc
    /\ UNCHANGED << procVars, queue, active, stopping, lock, wq, shut, isset,
                    futVars, histVars, mainVars, now >>

\* ------------------------------------------------------------------ Next
Next ==
    \/ \E p \in Procs : RunStart(p)
    \/ \E p \in Procs : RunEnd(p)
    \/ \E p \in Procs : RunKeyError(p)
    \/ \E p \in Procs : RunIndexError(p)
    \/ \E p \in Procs : Request(p)
    \/ \E p \in Procs : Dispatch(p)
    \/ \E p \in Procs : Register(p)
    \/ \E p \in Procs : Wait(p)
    \/ \E r \in RESOURCE_TYPES : WorkerPick(r)
    \/ \E r \in RESOURCE_TYPES : Execute(r)
    \/ \E r \in RESOURCE_TYPES : FutureDone(r)
    \/ \E r \in RESOURCE_TYPES : CompletedRaises(r)
    \/ \E r \in RESOURCE_TYPES : OperationCompleted(r)
    \/ \E r \in RESOURCE_TYPES : CompletedDispatch(r)
    \/ LoadFile
    \/ StartThreads
    \/ JoinThreads
    \/ Report
    \/ \E r \in RESOURCE_TYPES : ShutdownStopping(r)
    \/ \E r \in RESOURCE_TYPES : ShutdownExecutor(r)
    \/ \E r \in RESOURCE_TYPES : ShutdownJoin(r)

Spec == Init /\ [][Next]_vars

\* The same program when the main thread may be interrupted: shutdown() then
\* runs concurrently with request() and with completion handling.
NextInterrupt == Next \/ Interrupt

SpecInterrupt == Init /\ [][NextInterrupt]_vars

\* ------------------------------------------------------------ properties

\* Requests dispatched to the executor of r whose completion has not been
\* recorded: work items not yet run, and the one the worker is running or
\* whose callback it has still to run.
Outstanding(r) ==
    Len(wq[r]) + (IF worker[r].st \in {"exec", "ran", "callback"} THEN 1 ELSE 0)

\* C1 -- Mutual exclusion: on every resource at most one dispatched request is
\* executing or outstanding at the worker in any reachable state; a request is
\* never handed to the executor while the previous one is still outstanding.
MutualExclusion == \A r \in RESOURCE_TYPES : Outstanding(r) <= 1

\* Witness of C1: a request is executing on a resource while a request of
\* another process waits in that resource's queue.
MutualExclusionWitness ==
    \E r \in RESOURCE_TYPES :
        /\ worker[r].st = "exec"
        /\ queue[r] # << >>
        /\ Head(queue[r]).pid # worker[r].req.pid

IsPrefix(s, t) == Len(s) <= Len(t) /\ \A n \in 1 .. Len(s) : s[n] = t[n]

\* C3 -- FIFO: on every resource the requests begin execution, and end it, in
\* the order in which they were appended to the queue; none overtakes another.
Fifo ==
    \A r \in RESOURCE_TYPES :
        /\ IsPrefix(begun[r], appended[r])
        /\ IsPrefix(ended[r], begun[r])

\* Witness of C3: requests of two different processes have both been executed
\* on one resource.
FifoWitness ==
    \E r \in RESOURCE_TYPES :
        /\ Len(ended[r]) >= 2
        /\ ended[r][1].pid # ended[r][2].pid

\* The entry that follows the begin step b of a fused pair.
IsPairOf(b, e) ==
    /\ e.pid = b.pid
    /\ e.op = "0x600"
    /\ e.k = b.k + 1
    /\ e.ev = << b.pid, b.k >>

\* Only the begin step of a fused pair carries no event (soln.py:30).
IsBegin(e) == e.ev = NoEvent

\* C4 -- Atomic pairing: the two entries of a fused pair are adjacent in the
\* queue and in the order of appends, and no other request begins execution on
\* the resource between the two steps.
AtomicPairing ==
    \A r \in RESOURCE_TYPES :
        /\ \A n \in 1 .. Len(queue[r]) :
              IsBegin(queue[r][n]) =>
                  n < Len(queue[r]) /\ IsPairOf(queue[r][n], queue[r][n + 1])
        /\ \A n \in 1 .. Len(appended[r]) :
              IsBegin(appended[r][n]) =>
                  n < Len(appended[r]) /\ IsPairOf(appended[r][n], appended[r][n + 1])
        /\ \A n \in 1 .. Len(begun[r]) :
              IsBegin(begun[r][n]) /\ n < Len(begun[r]) =>
                  IsPairOf(begun[r][n], begun[r][n + 1])

\* Witness of C4: both steps of a pair have been executed on a resource on
\* which another process had a request queued before the pair was finished.
AtomicPairingWitness ==
    \E r \in RESOURCE_TYPES : \E n \in 1 .. Len(ended[r]) :
        /\ IsBegin(ended[r][n])
        /\ n < Len(ended[r])
        /\ \E m \in 1 .. Len(appended[r]) : appended[r][m].pid # ended[r][n].pid
        /\ Len(appended[r]) > Len(ended[r])

\* The requests of process p that are queued, handed to the executor, or
\* executing.
InFlight(p) ==
    UNION { { queue[r][n] : n \in { m \in 1 .. Len(queue[r]) : queue[r][m].pid = p } }
            \cup { wq[r][n] : n \in { m \in 1 .. Len(wq[r]) : wq[r][m].pid = p } }
            \cup (IF worker[r].st = "exec" /\ worker[r].req.pid = p
                  THEN {worker[r].req} ELSE {}) :
            r \in RESOURCE_TYPES }

\* The submission a queue entry belongs to: the loop index at which it was
\* submitted (both entries of a fused pair belong to the begin step's).
SubmissionOf(e) == IF e.ev # NoEvent THEN e.ev[2] ELSE e.k

Executed(p, k) ==
    \E r \in RESOURCE_TYPES : \E n \in 1 .. Len(ended[r]) :
        ended[r][n].pid = p /\ ended[r][n].k = k

\* C8 -- Sequential execution per process: the requests of a process that are
\* queued or executing all belong to its latest submission (one entry, or the
\* two entries of a fused pair), and when the process is about to submit the
\* entry at its loop index none of its requests is queued or executing and
\* every entry before that index has finished executing.
SequentialPerProcess ==
    \A p \in Procs :
        /\ \A e \in InFlight(p) : SubmissionOf(e) = event[p][2]
        /\ pc[p] = "loop" => InFlight(p) = {} /\ \A k \in 0 .. (i[p] - 1) : Executed(p, k)

\* Witness of C8: a process waits on its second submission, which is in flight.
SequentialPerProcessWitness ==
    \E p \in Procs :
        /\ pc[p] = "wait"
        /\ event[p][2] >= 1
        /\ InFlight(p) # {}
        /\ \E q \in Procs \ {p} : InFlight(q) # {}

\* The loop indices at which Process.run finds the begin step of a fused pair
\* (soln.py:96-107): the loop skips the entry that follows a begin step.
RECURSIVE PairStarts(_, _)
PairStarts(ops, k) ==
    IF k >= Len(ops) THEN {}
    ELSE IF RunIsFused(ops[k + 1].res, ops[k + 1].op)
         THEN {k} \cup PairStarts(ops, k + 2)
         ELSE PairStarts(ops, k + 1)

\* C9 -- Fused pair, single suspension: for a begin step at index k followed by
\* its paired entry, the process submits both entries once, waits on one event
\* only, is resumed only after the second step has finished executing, and
\* goes on at index k + 2.
FusedSingleSuspension ==
    \A p \in Procs : \A k \in PairStarts(operations[p], 0) :
        k + 1 < Len(operations[p]) =>
            /\ << p, k >> \in resumed => Executed(p, k) /\ Executed(p, k + 1)
            /\ << p, k + 1 >> \notin resumed
            /\ pc[p] = "loop" => i[p] # k + 1
            /\ pc[p] \in {"loop", "done"} /\ i[p] > k => << p, k >> \in resumed
            /\ \A r \in RESOURCE_TYPES :
                  Cardinality({ n \in 1 .. Len(appended[r]) :
                                  appended[r][n].pid = p /\ appended[r][n].k \in {k, k + 1} })
                     \in {0, 2}

\* Witness of C9: a process has been resumed after a fused pair and stands at
\* the entry after the pair.
FusedSingleSuspensionWitness ==
    \E p \in Procs : \E k \in PairStarts(operations[p], 0) :
        /\ << p, k >> \in resumed
        /\ pc[p] = "loop"
        /\ i[p] = k + 2
        /\ i[p] < Len(operations[p])

\* A schedule the engine is meant for: every resource is known, no duration is
\* negative, and every begin step of a fused pair is followed by an entry.
WellFormed(ops) ==
    /\ \A n \in 1 .. Len(ops) : ops[n].res \in RESOURCE_TYPES /\ ops[n].dur >= 0
    /\ \A k \in PairStarts(ops, 0) : k + 1 < Len(ops)

\* No thread of the program can take a step any more.  Every behaviour of the
\* program is finite (each step consumes a row, a work item or a position of
\* a thread), so under fair scheduling "eventually P" holds exactly when P
\* holds in every state in which the program has come to a halt.
Halted == ~ ENABLED Next

\* A file that can be read and holds a well-formed schedule.
WellFormedFile(file) == ~ReadRaises(file) /\ WellFormed(read_process_from_csv(file))

\* C2 -- Every submitted request is executed and signaled: when all schedules
\* are well-formed, the program does not come to a halt before every request
\* appended to a queue has been executed and every process has set end_time.
RunsToCompletion ==
    (Halted /\ \A p \in Procs : WellFormedFile(files[p])) =>
        /\ \A p \in Procs : end_time[p] # None
        /\ \A r \in RESOURCE_TYPES : ended[r] = appended[r]

\* The executions that failed in the worker (soln.py:57 raised).
FailedOn(r) == { n \in 1 .. Len(ended[r]) : SleepRaises(ended[r][n].dur) }

\* The event the submitter of queue entry e waits on.
WaitedEvent(e) == IF e.ev # NoEvent THEN e.ev ELSE << e.pid, e.k >>

\* C5 -- A worker failure is escalated through the completion signal: the
\* process waiting on a request whose execution failed is not resumed as if
\* the operation had succeeded, and it is not left waiting when the program
\* halts; it observes the failure, which ends its run.
FailureEscalated ==
    \A r \in RESOURCE_TYPES : \A n \in FailedOn(r) :
        /\ WaitedEvent(ended[r][n]) \notin resumed
        /\ Halted => pc[ended[r][n].pid] = "aborted"

HasFailure(p) == \E r \in RESOURCE_TYPES : \E n \in FailedOn(r) : ended[r][n].pid = p

\* C6 -- Failure isolation: a process one of whose operations failed submits
\* nothing after the failed entry and never sets end_time, and the failure does
\* not keep a sibling with a well-formed schedule from setting its end_time.
FailureIsolation ==
    /\ \A r \in RESOURCE_TYPES : \A n \in FailedOn(r) :
          /\ end_time[ended[r][n].pid] = None
          /\ \A s \in RESOURCE_TYPES : \A m \in 1 .. Len(appended[s]) :
                appended[s][m].pid = ended[r][n].pid =>
                    appended[s][m].k <= ended[r][n].k + (IF IsBegin(ended[r][n]) THEN 1 ELSE 0)
    /\ (Halted /\ \E p \in Procs : HasFailure(p)) =>
          \A q \in Procs : WellFormed(operations[q]) => end_time[q] # None

\* C7 -- Unconditional cleanup: the run of schedule_processes does not come to
\* a halt before shutdown() has been called on every resource.
CleanupAlways == Halted => \A r \in RESOURCE_TYPES : stopping[r]

\* C10 -- Shutdown drain semantics: once shutdown() has set the stopping flag
\* of a resource, no step pops a request from that resource's queue; and
\* shutdown() has returned only when no work item is left or running.
ShutdownDrains ==
    [][\A r \in RESOURCE_TYPES :
          /\ stopping[r] => Len(queue'[r]) >= Len(queue[r])
          /\ worker'[r].st = "exited" => wq'[r] = << >>]_vars

\* The thread that holds the lock of r takes the step.
HolderSteps(r) ==
    /\ \A p \in Procs : lock[r] = ProcessThread(p) => pc'[p] # pc[p]
    /\ lock[r] = WorkerThread => worker'[r] # worker[r]

\* C11 -- Lock discipline: every step that changes a resource's queue or its
\* active flag is taken by the thread that holds the resource's lock, or takes
\* the lock, which was free, for the change.
LockDiscipline ==
    [][\A r \in RESOURCE_TYPES :
          (queue'[r] # queue[r] \/ active'[r] # active[r]) =>
              (lock[r] = Free \/ HolderSteps(r))]_vars

\* Witness of C11: a thread holds the lock of a resource, about to pop the head
\* of the queue, while another process is about to submit to that resource.
LockDisciplineWitness ==
    \E r \in RESOURCE_TYPES : \E p \in Procs :
        /\ lock[r] # Free
        /\ lock[r] # ProcessThread(p)
        /\ queue[r] # << >>
        /\ pc[p] = "loop"
        /\ i[p] < Len(operations[p])
        /\ operations[p][i[p] + 1].res = r

\* C12 -- No lost dispatch: whenever the lock of a resource is free and the
\* resource is not stopping, a non-empty queue implies that active is true and
\* that a dispatched request is executing or has its completion still to be
\* handled (so that the head of the queue will be dispatched on completion).
NoLostDispatch ==
    \A r \in RESOURCE_TYPES :
        (lock[r] = Free /\ ~stopping[r] /\ queue[r] # << >>) =>
            active[r] /\ Outstanding(r) >= 1

\* C18 -- No self-deadlock: no thread tries to take a resource's lock while it
\* holds it; __operation_completed is never run by a thread inside request().
NoSelfDeadlock == \A p \in Procs : pc[p] # "blocked"

\* C19 -- A failed execution does not make the resource unusable: when the
\* program halts without a deadlocked thread, every request that another
\* process appended to a resource on which an execution failed has been
\* executed (active is not left set for ever with those requests queued).
FailureKeepsResourceUsable ==
    (Halted /\ NoSelfDeadlock) =>
        \A r \in RESOURCE_TYPES : \A n \in FailedOn(r) :
            \A m \in 1 .. Len(appended[r]) :
                  appended[r][m].pid # ended[r][n].pid =>
                      \E l \in 1 .. Len(ended[r]) : ended[r][l] = appended[r][m]

\* The number of executions of entry k of process p, on all resources.
Executions(p, k) ==
    Cardinality({ << r, n >> \in RESOURCE_TYPES \X (1 .. MaxRows) :
                     n <= Len(ended[r]) /\ ended[r][n].pid = p /\ ended[r][n].k = k })

\* C20 -- Conservation of work: every entry of the schedule of a process that
\* has set end_time has been executed exactly once, none of its requests is
\* left queued or executing, and when every process has set end_time every
\* queue is empty and nothing is left at the executors.
ConservationOfWork ==
    /\ \A p \in Procs : end_time[p] # None =>
          /\ \A k \in 0 .. (Len(operations[p]) - 1) : Executions(p, k) = 1
          /\ InFlight(p) = {}
    /\ (\A p \in Procs : end_time[p] # None) =>
          \A r \in RESOURCE_TYPES : queue[r] = << >> /\ wq[r] = << >> /\ ended[r] = appended[r]

\* Witness of C20: both processes have set end_time, one of them after a fused
\* pair, and both have used the same resource.
ConservationOfWorkWitness ==
    /\ \A p \in Procs : end_time[p] # None
    /\ \E r \in RESOURCE_TYPES :
          /\ \E n \in 1 .. Len(ended[r]) : IsBegin(ended[r][n])
          /\ \E n, m \in 1 .. Len(ended[r]) : ended[r][n].pid # ended[r][m].pid

\* C15 -- Input malformation is surfaced before scheduling starts: when the
\* reading of any input file fails, no process thread is ever started and no
\* request is ever appended to a queue; and when a process thread has been
\* started, every file has been read and every Process holds its schedule.
MalformationBeforeScheduling ==
    /\ (\E p \in Procs : ReadRaises(files[p])) =>
          /\ \A p \in Procs : pc[p] = "new"
          /\ \A r \in RESOURCE_TYPES : appended[r] = << >>
    /\ (\E p \in Procs : pc[p] # "new") =>
          /\ loaded = NumProcs
          /\ \A p \in Procs : operations[p] = read_process_from_csv(files[p])

MalformationBeforeSchedulingWitness ==
    /\ loaded >= 1
    /\ loaded < NumProcs
    /\ ReadRaises(files[loaded])
    /\ operations[0] # << >>
    /\ mpc = "finished"

\* C16 -- Process timestamps: start_time and end_time never change once set;
\* start_time is set before the process appends its first request; end_time is
\* set only by a process that has left its loop with every entry of its
\* schedule executed, and is not less than start_time; a process whose run
\* was aborted has no end_time.
Timestamps ==
    [][\A p \in Procs :
          /\ start_time[p] # None => start_time'[p] = start_time[p]
          /\ end_time[p] # None => end_time'[p] = end_time[p]
          /\ pc'[p] \notin {"new", "start"} => start_time'[p] # None
          /\ (\E r \in RESOURCE_TYPES : \E n \in 1 .. Len(appended'[r]) :
                 appended'[r][n].pid = p) => start_time'[p] # None
          /\ end_time'[p] # None =>
                /\ pc'[p] = "done"
                /\ start_time'[p] # None
                /\ end_time'[p][1] >= start_time'[p][1]
                /\ \A k \in 0 .. (Len(operations'[p]) - 1) : Executed(p, k)'
                /\ InFlight(p)' = {}
          /\ pc'[p] = "aborted" => end_time'[p] = None]_vars

TimestampsWitness ==
    \E p, q \in Procs :
        /\ pc[p] = "aborted"
        /\ start_time[p] # None
        /\ pc[q] = "done"
        /\ end_time[q] # None
        /\ end_time[q][1] > start_time[q][1]
        /\ start_time[q][1] > 0

\* The sum of the durations of the entries of a schedule that name resource r.
RECURSIVE DurationsNaming(_, _)
DurationsNaming(ops, r) ==
    IF ops = << >> THEN 0
    ELSE (IF Head(ops).res = r THEN Head(ops).dur ELSE 0) + DurationsNaming(Tail(ops), r)

\* C13 -- Downtime identity: for every process that has set end_time,
\* get_downtime() gives for every resource of the registry the time from
\* start_time to end_time less the durations of the entries of the schedule
\* that name the resource, and for a well-formed schedule no value is negative.
DowntimeIdentity ==
    \A p \in Procs : end_time[p] # None =>
        /\ ~get_downtime(p).raises
        /\ \A r \in RESOURCE_TYPES :
              /\ get_downtime(p).downtime[r] =
                    (end_time[p][1] - start_time[p][1]) - DurationsNaming(operations[p], r)
              /\ WellFormed(operations[p]) => get_downtime(p).downtime[r] >= 0

\* C14 -- Makespan: once every process has set end_time and the main thread
\* is past the report, the cluster time has been reported and is the largest
\* end_time less the smallest start_time of all processes.
Makespan ==
    (mpc \in {"cleanup", "cleanup_exc", "finished"} /\ \A p \in Procs : end_time[p] # None) =>
        /\ cluster_time # None
        /\ \A p \in Procs : cluster_time[1] >= end_time[p][1] - start_time[p][1]
        /\ \E p, q \in Procs : cluster_time[1] = end_time[p][1] - start_time[q][1]
        /\ \A p, q \in Procs : cluster_time[1] >= end_time[p][1] - start_time[q][1]

\* C17 -- get_downtime() returns the empty map for a process whose end_time is
\* None, and a map whose keys are the resources of the registry for a process
\* whose end_time is set.
DowntimeMap ==
    \A p \in Procs :
        /\ end_time[p] = None =>
              ~get_downtime(p).raises /\ DOMAIN get_downtime(p).downtime = {}
        /\ end_time[p] # None =>
              ~get_downtime(p).raises /\ DOMAIN get_downtime(p).downtime = RESOURCE_TYPES
====
